---- MODULE Spec2Model ----
(***************************************************************************)
(* Model of app.py, the ICU dashboard script.  The script is re-executed   *)
(* top to bottom on every user interaction; load_data is memoised for the  *)
(* lifetime of the process.  Data frames are records                       *)
(*     [columns |-> set of column names, rows |-> sequence of records]     *)
(* Nullable cells are sequences: <<>> is NaN/NaT, <<v>> is the value v.    *)
(* Lengths of stay are counted in units of 1/LosScale day and admission    *)
(* times in units of 1/TicksPerDay day.                                    *)
(***************************************************************************)
EXTENDS Integers, Sequences, FiniteSets, TLC

(* ---------------------------- bounds ----------------------------------- *)

\* Largest number of event rows in CHARTEVENTS.csv.
MaxEvents == 2

(* ------------------------- program constants --------------------------- *)

\* read_csv("CHARTEVENTS.csv", nrows=5000)
NRows == 5000

\* slider default value (0, 10), in days
SliderDefault == <<0, 10>>

\* resolution of the los column: los is a float, int(los) truncates it
LosScale == 2

\* resolution of the intime column: date_input keeps the date only
TicksPerDay == 2

Files == {"CHARTEVENTS.csv", "ICUSTAYS.csv", "D_ITEMS.csv"}

\* Python None (a failed load, or a name not bound yet in this run)
None == [columns |-> {"<None>"}, rows |-> <<>>]

NaN == <<>>

(* --------------------------- input domains ----------------------------- *)

EventCols == {"icustay_id", "itemid", "valuenum", "error"}

EventRows ==
    { [icustay_id |-> 1, itemid |-> <<10>>, valuenum |-> <<80>>, error |-> 0],
      [icustay_id |-> 1, itemid |-> <<11>>, valuenum |-> <<95>>, error |-> 1],
      [icustay_id |-> 2, itemid |-> <<10>>, valuenum |-> <<70>>, error |-> 0],
      [icustay_id |-> 3, itemid |-> <<11>>, valuenum |-> <<60>>, error |-> 0],
      [icustay_id |-> 1, itemid |-> NaN,    valuenum |-> <<85>>, error |-> 0],
      [icustay_id |-> 2, itemid |-> <<11>>, valuenum |-> NaN,    error |-> 0] }

StayCols == {"icustay_id", "subject_id", "los", "first_careunit", "intime"}

\* intime as written in the file: <<day, tick of the day>>, or <<>> when the
\* cell is blank or not a timestamp
StayRows ==
    { [icustay_id |-> 1, subject_id |-> 100, los |-> 20,
       first_careunit |-> "MICU", intime |-> <<0, 1>>],
      [icustay_id |-> 2, subject_id |-> 101, los |-> 25,
       first_careunit |-> "SICU", intime |-> <<1, 0>>],
      [icustay_id |-> 3, subject_id |-> 100, los |-> 23,
       first_careunit |-> "MICU", intime |-> <<>>] }

ItemCols == {"itemid", "label"}

ItemRows ==
    { [itemid |-> <<10>>, label |-> "Heart Rate"],
      [itemid |-> <<11>>, label |-> "SpO2"] }

\* dates the admission date picker offers
Days == {0, 1}

(* ------------------------- data frame algebra -------------------------- *)

RECURSIVE SetToSeq(_)
SetToSeq(S) ==
    IF S = {} THEN <<>>
    ELSE LET x == CHOOSE y \in S : TRUE IN <<x>> \o SetToSeq(S \ {x})

\* the frames a file can hold: at most n of the rows, in file order
Frames(cols, rowset, n) ==
    { [columns |-> cols, rows |-> SetToSeq(S)] :
        S \in { T \in SUBSET rowset : Cardinality(T) <= n } }

Restrict(r, cols) == [c \in cols |-> r[c]]

\* df[[c1, c2, ...]]
Project(df, cols) ==
    [columns |-> cols,
     rows    |-> [i \in DOMAIN df.rows |-> Restrict(df.rows[i], cols)]]

\* df.dropna(subset=cols)
DropNa(df, cols) ==
    [columns |-> df.columns,
     rows    |-> SelectSeq(df.rows, LAMBDA r : \A c \in cols : r[c] # NaN)]

JoinOne(l, rrows, on) ==
    LET m == SelectSeq(rrows, LAMBDA r : r[on] = l[on])
    IN  [i \in 1..Len(m) |-> l @@ m[i]]

RECURSIVE MergeRows(_, _, _)
MergeRows(lrows, rrows, on) ==
    IF lrows = <<>> THEN <<>>
    ELSE JoinOne(Head(lrows), rrows, on) \o MergeRows(Tail(lrows), rrows, on)

\* pd.merge(left, right, on=on, how="inner")
Merge(left, right, on) ==
    [columns |-> left.columns \cup right.columns,
     rows    |-> MergeRows(left.rows, right.rows, on)]

\* the values of one column
Column(df, c) == { df.rows[i][c] : i \in DOMAIN df.rows }

(* ------------------------------ state ---------------------------------- *)

VARIABLES
    disk,                \* contents of the three files
    present,             \* the files that exist right now
    cache,               \* st.cache_data entry of load_data: <<>> or <<result>>
    pc,                  \* position of the current script run
    out,                 \* messages shown by the current run
    exception,           \* the exception that ended the run, "" if none
    chart_events, icu_stays, d_items,
    merged_data,
    care_unit_filter, measurement_filter, los_range, start_date, end_date,
    filtered_data,
    total_patients, average_los, unique_measurements,
    metric_los,          \* the text of the "Average LOS (days)" metric
    care_unit_dist, top_measurements, icu_summary

tables  == <<chart_events, icu_stays, d_items>>
widgets == <<care_unit_filter, measurement_filter, los_range, start_date, end_date>>
metrics == <<total_patients, average_los, unique_measurements, metric_los>>
charts  == <<care_unit_dist, top_measurements, icu_summary>>
env     == <<disk, present>>
vars    == <<env, cache, pc, out, exception, tables, merged_data, widgets,
             filtered_data, metrics, charts>>

ErrLoad     == "Error loading files"
WarnSubject == "The column 'subject_id' is missing from the filtered data."
WarnUnit    == "No 'first_careunit' data available to plot."
WarnLabel   == "No 'label' data available to plot."
WarnScatter == "Insufficient data to plot LOS vs Measurement Value."
WarnSummary == "No 'first_careunit' data available to summarize."

(* ----------------------------- load_data ------------------------------- *)

\* pd.read_csv(file, nrows=n)
ReadCsv(df, n) ==
    [columns |-> df.columns,
     rows    |-> SubSeq(df.rows, 1, IF Len(df.rows) < n THEN Len(df.rows) ELSE n)]

\* a mis-written load_data that keeps the tables it could read
LoadDataPartial(d, p) ==
    [chart_events |-> IF "CHARTEVENTS.csv" \in p
                      THEN ReadCsv(d.chart_events, NRows) ELSE None,
     icu_stays    |-> IF "ICUSTAYS.csv" \in p THEN d.icu_stays ELSE None,
     d_items      |-> IF "D_ITEMS.csv" \in p THEN d.d_items ELSE None,
     out          |-> IF Files \subseteq p THEN {} ELSE {ErrLoad}]

\* the body of load_data: any missing file gives (None, None, None)
LoadDataBody(d, p) ==
    IF Files \subseteq p
    THEN [chart_events |-> ReadCsv(d.chart_events, NRows),
          icu_stays    |-> d.icu_stays,
          d_items      |-> d.d_items,
          out          |-> {}]
    ELSE [chart_events |-> None, icu_stays |-> None, d_items |-> None,
          out          |-> {ErrLoad}]

\* load_data without the memoisation
load_data_uncached(c, d, p) == LoadDataBody(d, p)

\* @st.cache_data load_data(): the stored result, messages included, is
\* returned on every call after the first
load_data(c, d, p) == IF c # <<>> THEN c[1] ELSE LoadDataBody(d, p)

(* ------------------------ cleaning and joining ------------------------- *)

NaT == <<>>

\* pd.to_datetime(cell, errors='coerce')
ToDatetime(raw) ==
    IF Len(raw) = 2 THEN <<raw[1] * TicksPerDay + raw[2]>> ELSE NaT

EventSel == {"icustay_id", "itemid", "valuenum"}

\* chart_events.dropna(subset=["itemid", "valuenum"])
Cleaned(ce) == DropNa(ce, {"itemid", "valuenum"})

\* a column named by the script is absent: KeyError
JoinRaises(ce, stays, items) ==
    \/ ~ ({"itemid", "valuenum"} \subseteq ce.columns)
    \/ ~ (EventSel \subseteq ce.columns)
    \/ ~ (StayCols \subseteq stays.columns)
    \/ ~ (ItemCols \subseteq items.columns)

\* how="left": event rows without a stay are kept, the stay columns empty
LeftJoinOne(l, rrows, on) ==
    LET m == SelectSeq(rrows, LAMBDA r : r[on] = l[on])
    IN  IF m = <<>>
        THEN << l @@ [c \in StayCols |-> IF c = "los" THEN 0 ELSE
                                         IF c = "icustay_id" THEN l[on] ELSE
                                         IF c = "subject_id" THEN 0 ELSE
                                         IF c = "first_careunit" THEN "" ELSE <<>>] >>
        ELSE [i \in 1..Len(m) |-> l @@ m[i]]

RECURSIVE LeftMergeRows(_, _, _)
LeftMergeRows(lrows, rrows, on) ==
    IF lrows = <<>> THEN <<>>
    ELSE LeftJoinOne(Head(lrows), rrows, on) \o LeftMergeRows(Tail(lrows), rrows, on)

MergeStaysLeft(ce, stays) ==
    [columns |-> EventSel \cup StayCols,
     rows    |-> LeftMergeRows(Project(ce, EventSel).rows,
                               Project(stays, StayCols).rows, "icustay_id")]

\* the first pd.merge: events with stays on icustay_id
MergeStays(ce, stays) ==
    Merge(Project(ce, EventSel), Project(stays, StayCols), "icustay_id")

\* the second pd.merge, with items on itemid, then the intime conversion
MergedData(ce, stays, items) ==
    LET m == Merge(MergeStays(ce, stays), Project(items, ItemCols), "itemid")
    IN  [columns |-> m.columns,
         rows    |-> [i \in DOMAIN m.rows |->
                        [m.rows[i] EXCEPT !.intime = ToDatetime(@)]]]

(* ------------------------------ widgets -------------------------------- *)

SetMin(S) == CHOOSE x \in S : \A y \in S : x <= y
SetMax(S) == CHOOSE x \in S : \A y \in S : y <= x

\* int(x) of a float: truncation towards zero
IntOf(x) == IF x >= 0 THEN x \div LosScale ELSE -((-x) \div LosScale)

\* the bounds handed to the slider: int(los.min()), int(los.max())
SliderMin(m) == IntOf(SetMin(Column(m, "los")))
SliderMax(m) == IntOf(SetMax(Column(m, "los")))

\* positions of the LOS slider: whole-day ranges inside the bounds handed to
\* it, or its initial value (0, 10), which the widget accepts even when it
\* lies outside int(min)..int(max)
SliderValues(m) ==
    { v \in (SliderMin(m)..SliderMax(m)) \X (SliderMin(m)..SliderMax(m)) :
        v[1] <= v[2] } \cup {SliderDefault}

\* date_input shows and returns calendar dates
DateOf(t) == t \div TicksPerDay

\* pd.Timestamp(date): midnight of that date
Timestamp(d) == d * TicksPerDay

Parseable(m) == { t \in Column(m, "intime") : t # NaT }

Times(m) == { t[1] : t \in Parseable(m) }

\* the initial value of the date picker: [intime.min(), intime.max()]
DefaultDates(m) == <<DateOf(SetMin(Times(m))), DateOf(SetMax(Times(m)))>>

\* ranges of the date picker
DateValues == { v \in Days \X Days : v[1] <= v[2] }

(* ------------------------------ filtering ------------------------------ *)

\* series.between(lo, hi) with both ends excluded
BetweenOpen(x, lo, hi) == lo < x /\ x < hi

\* series.between(lo, hi): inclusive="both"
Between(x, lo, hi) == lo <= x /\ x <= hi

InUnits(r, cu) == r.first_careunit \in cu
InLabels(r, mf) == r.label \in mf
InLos(r, lr) == Between(r.los, lr[1] * LosScale, lr[2] * LosScale)
InDates(r, s, e) ==
    r.intime # NaT /\ Between(r.intime[1], Timestamp(s), Timestamp(e))

\* a mask that keeps a row when any predicate holds
MaskAny(r, cu, mf, lr, s, e) ==
    InUnits(r, cu) \/ InLabels(r, mf) \/ InLos(r, lr) \/ InDates(r, s, e)

\* the boolean mask of the filter: the four predicates joined by &
Mask(r, cu, mf, lr, s, e) ==
    InUnits(r, cu) /\ InLabels(r, mf) /\ InLos(r, lr) /\ InDates(r, s, e)

\* merged_data[mask]
FilteredData(m, cu, mf, lr, s, e) ==
    [columns |-> m.columns,
     rows    |-> SelectSeq(m.rows, LAMBDA r : Mask(r, cu, mf, lr, s, e))]

(* ------------------------------ metrics -------------------------------- *)

\* series.nunique()
NUnique(df, c) == Cardinality(Column(df, c))

RECURSIVE SumLos(_)
SumLos(rows) == IF rows = <<>> THEN 0 ELSE Head(rows).los + SumLos(Tail(rows))

\* series.mean(): NaN on an empty series, else <<sum, count>> (sum in 1/LosScale)
MeanLos(rows) == IF rows = <<>> THEN NaN ELSE <<SumLos(rows), Len(rows)>>

\* f"{x:.2f}": "nan" for NaN, else x rounded half-even to hundredths
Format2f(x) ==
    IF x = NaN THEN [nan |-> TRUE, cents |-> 0]
    ELSE LET num == x[1] * 100
             den == x[2] * LosScale
             q   == num \div den
             r   == num % den
         IN  [nan   |-> FALSE,
              cents |-> IF 2 * r > den THEN q + 1
                        ELSE IF 2 * r = den THEN q + (q % 2) ELSE q]

\* series.value_counts()
ValueCounts(df, c) ==
    [v \in Column(df, c) |->
        Cardinality({ i \in DOMAIN df.rows : df.rows[i][c] = v })]

TopN == 10

\* value_counts().nlargest(10)
NLargest(vc, n) ==
    IF Cardinality(DOMAIN vc) <= n THEN vc
    ELSE LET S == CHOOSE T \in SUBSET DOMAIN vc :
                    /\ Cardinality(T) = n
                    /\ \A a \in T, b \in DOMAIN vc \ T : vc[a] >= vc[b]
         IN  [v \in S |-> vc[v]]

\* groupby("first_careunit").agg(Total_Stays=count, Avg_LOS=mean)
IcuSummary(df) ==
    [u \in Column(df, "first_careunit") |->
        LET g == SelectSeq(df.rows, LAMBDA r : r.first_careunit = u)
        IN  [Total_Stays |-> Len(g), Avg_LOS |-> MeanLos(g)]]

(* ------------------------------ the run -------------------------------- *)

InitialTables ==
    [chart_events : Frames(EventCols, EventRows, MaxEvents),
     icu_stays    : Frames(StayCols, StayRows, Cardinality(StayRows)) \cup
                    { Project(f, StayCols \ {"subject_id"}) :
                        f \in Frames(StayCols, StayRows, Cardinality(StayRows)) },
     d_items      : Frames(ItemCols, ItemRows, Cardinality(ItemRows))]

\* names of the script before the run binds them
Unbound ==
    /\ chart_events = None /\ icu_stays = None /\ d_items = None
    /\ merged_data = None /\ filtered_data = None
    /\ care_unit_filter = {} /\ measurement_filter = {}
    /\ los_range = <<>> /\ start_date = 0 /\ end_date = 0
    /\ total_patients = 0 /\ average_los = NaN /\ unique_measurements = 0
    /\ metric_los = <<>>
    /\ care_unit_dist = <<>> /\ top_measurements = <<>> /\ icu_summary = <<>>
    /\ out = {} /\ exception = ""

Init ==
    /\ disk \in InitialTables
    /\ present \in SUBSET Files
    /\ cache = <<>>
    /\ pc = "idle"
    /\ Unbound

\* lines 19-21: load the tables, stop the run when any of them is None
Load ==
    /\ pc = "idle"
    /\ LET r == load_data(cache, disk, present)
       IN  /\ cache' = <<r>>
           /\ chart_events' = r.chart_events
           /\ icu_stays' = r.icu_stays
           /\ d_items' = r.d_items
           /\ out' = r.out
           /\ pc' = IF r.chart_events = None \/ r.icu_stays = None
                       \/ r.d_items = None
                    THEN "stopped" ELSE "loaded"
    /\ UNCHANGED <<env, exception, merged_data, widgets, filtered_data,
                   metrics, charts>>

\* lines 24-37: clean, join, convert intime
Join ==
    /\ pc = "loaded"
    /\ ~ JoinRaises(chart_events, icu_stays, d_items)
    /\ chart_events' = Cleaned(chart_events)
    /\ merged_data' = MergedData(Cleaned(chart_events), icu_stays, d_items)
    /\ pc' = "joined"
    /\ UNCHANGED <<env, cache, out, exception, icu_stays, d_items, widgets,
                   filtered_data, metrics, charts>>

\* lines 24-34 when a selected column is absent
JoinKeyError ==
    /\ pc = "loaded"
    /\ JoinRaises(chart_events, icu_stays, d_items)
    /\ exception' = "KeyError"
    /\ pc' = "raised"
    /\ UNCHANGED <<env, cache, out, tables, merged_data, widgets,
                   filtered_data, metrics, charts>>

\* lines 40-68: the sidebar widgets return the user's selection
Widgets ==
    /\ pc = "joined"
    /\ merged_data.rows # <<>>
    /\ \E cu \in SUBSET Column(icu_stays, "first_careunit"),
          mf \in SUBSET Column(merged_data, "label"),
          lr \in SliderValues(merged_data),
          dr \in DateValues \cup
                 (IF Parseable(merged_data) = {} THEN {}
                  ELSE {DefaultDates(merged_data)}) :
          /\ care_unit_filter' = cu
          /\ measurement_filter' = mf
          /\ los_range' = lr
          /\ start_date' = dr[1]
          /\ end_date' = dr[2]
    /\ pc' = "chosen"
    /\ UNCHANGED <<env, cache, out, exception, tables, merged_data,
                   filtered_data, metrics, charts>>

\* lines 59-60: int(NaN) when merged_data has no row; lines 65-68: the date
\* picker may reject an initial value of NaT
WidgetsValueError ==
    /\ pc = "joined"
    /\ merged_data.rows = <<>> \/ Parseable(merged_data) = {}
    /\ exception' = "ValueError"
    /\ pc' = "raised"
    /\ UNCHANGED <<env, cache, out, tables, merged_data, widgets,
                   filtered_data, metrics, charts>>

\* lines 71-76
Filter ==
    /\ pc = "chosen"
    /\ filtered_data' = FilteredData(merged_data, care_unit_filter,
                                     measurement_filter, los_range,
                                     start_date, end_date)
    /\ pc' = "filtered"
    /\ UNCHANGED <<env, cache, out, exception, tables, merged_data, widgets,
                   metrics, charts>>

\* lines 84-96
KeyMetrics ==
    /\ pc = "filtered"
    /\ IF "subject_id" \in filtered_data.columns
       THEN /\ total_patients' = NUnique(filtered_data, "subject_id")
            /\ out' = out
       ELSE /\ total_patients' = 0
            /\ out' = out \cup {WarnSubject}
    /\ average_los' = IF "los" \in filtered_data.columns
                      THEN MeanLos(filtered_data.rows) ELSE <<0, 1>>
    /\ unique_measurements' = IF "label" \in filtered_data.columns
                              THEN NUnique(filtered_data, "label") ELSE 0
    /\ metric_los' = Format2f(average_los')
    /\ pc' = "metrics"
    /\ UNCHANGED <<env, cache, exception, tables, merged_data, widgets,
                   filtered_data, charts>>

\* lines 98-143: the charts, the summary table and the preview
Charts ==
    /\ pc = "metrics"
    /\ care_unit_dist' = IF "first_careunit" \in filtered_data.columns
                         THEN ValueCounts(filtered_data, "first_careunit")
                         ELSE <<>>
    /\ top_measurements' = IF "label" \in filtered_data.columns
                           THEN NLargest(ValueCounts(filtered_data, "label"), TopN)
                           ELSE <<>>
    /\ icu_summary' = IF "first_careunit" \in filtered_data.columns
                      THEN IcuSummary(filtered_data) ELSE <<>>
    /\ out' = out
         \cup (IF "first_careunit" \in filtered_data.columns
               THEN {} ELSE {WarnUnit, WarnSummary})
         \cup (IF "label" \in filtered_data.columns THEN {} ELSE {WarnLabel})
         \cup (IF {"los", "valuenum"} \subseteq filtered_data.columns
               THEN {} ELSE {WarnScatter})
    /\ pc' = "done"
    /\ UNCHANGED <<env, cache, exception, tables, merged_data, widgets,
                   filtered_data, metrics>>

\* a user interaction: the script runs again from the top, its names unbound
Rerun ==
    /\ pc \in {"stopped", "raised", "done"}
    /\ pc' = "idle"
    /\ chart_events' = None /\ icu_stays' = None /\ d_items' = None
    /\ merged_data' = None /\ filtered_data' = None
    /\ care_unit_filter' = {} /\ measurement_filter' = {}
    /\ los_range' = <<>> /\ start_date' = 0 /\ end_date' = 0
    /\ total_patients' = 0 /\ average_los' = NaN /\ unique_measurements' = 0
    /\ metric_los' = <<>>
    /\ care_unit_dist' = <<>> /\ top_measurements' = <<>> /\ icu_summary' = <<>>
    /\ out' = {} /\ exception' = ""
    /\ UNCHANGED <<env, cache>>

\* between runs a file is deleted
RemoveFile ==
    /\ pc = "idle"
    /\ \E f \in present : present' = present \ {f}
    /\ UNCHANGED <<disk, cache, pc, out, exception, tables, merged_data,
                   widgets, filtered_data, metrics, charts>>

\* between runs a deleted file is put back
RestoreFile ==
    /\ pc = "idle"
    /\ \E f \in Files \ present : present' = present \cup {f}
    /\ UNCHANGED <<disk, cache, pc, out, exception, tables, merged_data,
                   widgets, filtered_data, metrics, charts>>

Next ==
    \/ Load \/ Join \/ JoinKeyError \/ Widgets \/ WidgetsValueError
    \/ Filter \/ KeyMetrics \/ Charts \/ Rerun \/ RemoveFile \/ RestoreFile

Spec == Init /\ [][Next]_vars

(* ============================ properties =============================== *)

Loaded      == cache[1]
AfterJoin   == pc \in {"joined", "chosen", "filtered", "metrics", "done"}
AfterFilter == pc \in {"filtered", "metrics", "done"}
RowsOf(df)  == { df.rows[i] : i \in DOMAIN df.rows }
Shown       == IF AfterFilter THEN RowsOf(merged_data) \cup RowsOf(filtered_data)
               ELSE RowsOf(merged_data)

\* the event rows of the loaded table that a joined row was made from
EventsOf(m) ==
    { e \in RowsOf(Loaded.chart_events) :
        Restrict(e, EventSel) = Restrict(m, EventSel) }

\* C1: no event row whose error flag is 1 appears in merged_data or in
\* filtered_data, whatever the filter selection.
C1_NoErrorRows ==
    AfterJoin => \A m \in Shown : \A e \in EventsOf(m) : e.error # 1

\* C2: every row of merged_data and of filtered_data carries an icustay_id of
\* the session table and an itemid of the item dictionary, and is made of an
\* event row, a session row and an item row of the loaded tables: unmatched
\* event rows are dropped and no row is invented.
C2_InnerJoinClosure ==
    AfterJoin =>
        \A m \in Shown :
            /\ m.icustay_id \in Column(icu_stays, "icustay_id")
            /\ m.itemid \in Column(d_items, "itemid")
            /\ EventsOf(m) # {}
            /\ \E st \in RowsOf(Loaded.icu_stays) :
                   Restrict(m, StayCols) = [st EXCEPT !.intime = ToDatetime(@)]
            /\ \E it \in RowsOf(Loaded.d_items) :
                   Restrict(m, ItemCols) = it

\* C2 witness: the join has produced rows while the cleaned event table holds
\* a row without a session and a row whose item is not in the dictionary.
C2_Witness ==
    /\ pc = "joined"
    /\ merged_data.rows # <<>>
    /\ \E e \in RowsOf(chart_events) :
           e.icustay_id \notin Column(icu_stays, "icustay_id")
    /\ \E e \in RowsOf(chart_events) :
           e.itemid \notin Column(d_items, "itemid")

NoneMatches(P(_)) == \A r \in RowsOf(merged_data) : ~ P(r)
UnitP(r)  == InUnits(r, care_unit_filter)
LabelP(r) == InLabels(r, measurement_filter)
LosP(r)   == InLos(r, los_range)
DateP(r)  == InDates(r, start_date, end_date)

\* C3: for every filter selection filtered_data is a subset of merged_data,
\* so it has no more rows, and it has no row at all when one of the four
\* predicates matches no merged row.
C3_FilterSubset ==
    AfterFilter =>
        /\ RowsOf(filtered_data) \subseteq RowsOf(merged_data)
        /\ Len(filtered_data.rows) <= Len(merged_data.rows)
        /\ (NoneMatches(UnitP) \/ NoneMatches(LabelP) \/ NoneMatches(LosP)
              \/ NoneMatches(DateP)) => Len(filtered_data.rows) = 0

\* C3 witness: the filter ran where every merged row passes three of the
\* predicates and the measurement selection, being empty, matches none.
C3_Witness ==
    /\ pc = "filtered"
    /\ merged_data.rows # <<>>
    /\ measurement_filter = {}
    /\ \A r \in RowsOf(merged_data) : UnitP(r) /\ LosP(r) /\ DateP(r)
    /\ filtered_data.rows = <<>>

\* C4: when filtered_data is empty the run does not raise and the key
\* metrics are the placeholder 0: Filtered Total Patients 0, Average LOS
\* shown as 0.00, Unique Measurements 0.
C4_EmptyPlaceholders ==
    (pc \in {"metrics", "done"} /\ filtered_data.rows = <<>>) =>
        /\ exception = ""
        /\ total_patients = 0
        /\ metric_los = [nan |-> FALSE, cents |-> 0]
        /\ unique_measurements = 0

AllNone(ce, st, it) == ce = None /\ st = None /\ it = None
AnyNone(ce, st, it) == ce = None \/ st = None \/ it = None

\* C5 as stated: in every run that finds one of the three files missing the
\* missing-file error is reported and the run halts right after loading.
C5_MissingFileAlwaysHalts ==
    (pc # "idle" /\ ~ (Files \subseteq present))
        => /\ pc = "stopped"
           /\ ErrLoad \in out
           /\ AllNone(chart_events, icu_stays, d_items)

\* C5 amended: when the body of load_data executes (no result is memoised
\* yet) with one of the three files missing, it reports the missing-file
\* error and the run halts right after loading.  In every run the tables
\* are all None or none of them is, the run halts exactly when they are
\* None, and a halted run executes no join, widget, filter, metric or chart
\* stage before the next run.
C5_MissingFileHalts ==
    [][ /\ (pc = "idle" /\ pc' # "idle" /\ cache = <<>>
              /\ ~ (Files \subseteq present))
           => /\ pc' = "stopped"
              /\ ErrLoad \in out'
              /\ AllNone(chart_events', icu_stays', d_items')
        /\ pc' # "idle"
           => /\ AnyNone(chart_events', icu_stays', d_items')
                 <=> AllNone(chart_events', icu_stays', d_items')
              /\ pc' = "stopped"
                 <=> AllNone(chart_events', icu_stays', d_items')
        /\ pc' = "stopped"
           => /\ merged_data' = None /\ filtered_data' = None
              /\ los_range' = <<>> /\ metric_los' = <<>>
              /\ care_unit_dist' = <<>> /\ icu_summary' = <<>>
        /\ pc = "stopped" => pc' = "idle"
      ]_vars

\* C5 witness: the first run of the process, loading with a file missing,
\* has halted.
C5_Witness ==
    /\ pc = "stopped"
    /\ cache = <<LoadDataBody(disk, present)>>
    /\ ~ (Files \subseteq present)
    /\ ErrLoad \in out
    /\ AllNone(chart_events, icu_stays, d_items)

\* C6: when subject_id is absent from the session table the run shows the
\* warning, reports Filtered Total Patients as 0 and renders the remaining
\* stages instead of ending in an error.
C6_MissingSubjectWarns ==
    (pc \in {"raised", "done"} /\ "subject_id" \notin Loaded.icu_stays.columns)
        => /\ pc = "done"
           /\ WarnSubject \in out
           /\ total_patients = 0

\* C7: across reruns the tables returned by load_data are built once and
\* stay identical: no stage changes the stored result, every run works on
\* it, and the filtered view is a function of it and of the current filter
\* values alone.
C7_BaseTablesFrozen ==
    [][ /\ cache # <<>> => cache' = cache
        /\ pc' \notin {"idle"}
           => /\ icu_stays' = Loaded'.icu_stays
              /\ d_items' = Loaded'.d_items
              /\ chart_events' \in {Loaded'.chart_events,
                                    Cleaned(Loaded'.chart_events)}
        /\ pc' \in {"filtered", "metrics", "done"}
           => filtered_data' =
                FilteredData(MergedData(Cleaned(Loaded'.chart_events),
                                        Loaded'.icu_stays, Loaded'.d_items),
                             care_unit_filter', measurement_filter',
                             los_range', start_date', end_date')
      ]_vars

\* C7 witness: a later run has rendered from the stored tables although a
\* file has been deleted since they were built.
C7_Witness ==
    /\ pc = "done"
    /\ ~ (Files \subseteq present)
    /\ filtered_data.rows # <<>>

\* C8: the LOS predicate is a closed interval: a merged row that passes the
\* other three predicates is in filtered_data exactly when lo <= los <= hi.
C8_LosClosedInterval ==
    AfterFilter =>
        \A r \in RowsOf(merged_data) :
            (UnitP(r) /\ LabelP(r) /\ DateP(r)) =>
                (r \in RowsOf(filtered_data)
                   <=> /\ los_range[1] * LosScale <= r.los
                       /\ r.los <= los_range[2] * LosScale)

\* C8 witness: filtered_data keeps a row whose los equals the lower end and
\* a row whose los equals the upper end of the selected range.
C8_Witness ==
    /\ pc = "filtered"
    /\ \E r \in RowsOf(filtered_data) : r.los = los_range[1] * LosScale
    /\ \E r \in RowsOf(filtered_data) : r.los = los_range[2] * LosScale

\* C9: with the date range left at its default the date predicate excludes
\* no merged row that has a parseable intime.
C9_DefaultDatesKeepAll ==
    (AfterFilter /\ Parseable(merged_data) # {}
       /\ <<start_date, end_date>> = DefaultDates(merged_data))
        => \A r \in RowsOf(merged_data) : r.intime # NaT => DateP(r)

\* C10: every merged row is selectable by the LOS slider: some position of
\* the slider makes the row pass the LOS predicate.
C10_EveryRowSelectable ==
    (pc = "joined" /\ merged_data.rows # <<>>)
        => \A r \in RowsOf(merged_data) :
               \E lr \in SliderValues(merged_data) : InLos(r, lr)

====
